---- MODULE Spec2Model ----
(***************************************************************************)
(* A model of the Turing machine simulator: the package build              *)
(* (python/turingmachine.py, python/models.py) and the standalone script   *)
(* build (turingmachine.py).  The variable build says which of the two     *)
(* a behaviour is about.                                                   *)
(***************************************************************************)
EXTENDS Integers, Sequences, FiniteSets, TLC

VARIABLES
    build,          \* "python" (package) or "legacy" (standalone script)
    states,         \* program.states: list of state names
    transitions,    \* program.transitions: the Transition objects, shared with the map
    initial_state,  \* program.initial_state
    initial_index,  \* program.initial_index
    tape,           \* machine.tape (0-based in the code, 1-based here)
    state,          \* machine.state (a State is identified by its name)
    tapeIndex,      \* machine.tapeIndex (0-based, may be off the tape)
    errorOnEOT,     \* machine.errorOnEOT
    halted,         \* machine.halted
    pc,             \* "ready": no call in progress; "running": inside run()'s loop
    caller,         \* who entered run(): "run" or "accepts"
    steps,          \* number of next() calls made so far (bounded by MaxSteps)
    tape0,          \* the tape the machine was built from
    transitions0,   \* the transitions as the Program was constructed with them
    grown,          \* <<l, r>>: steps taken with the head off the left / right edge, errors disabled
    last,           \* what the last operation did: its name, return value, failure
    registry,       \* State.registry: name -> serial of the State stored under it, 0 when absent
    created,        \* name -> number of State objects constructed with that name
    threads,        \* per thread: where it is in State.get, the name asked for, what it got last
    handed,         \* the State objects State.get has returned so far
    ensured,        \* the symbol lists ensure_transitions has returned normally for
    verbose,        \* machine.verbose
    printed,        \* the trace records next() has printed
    shares,         \* machine.tape is the very list the caller passed to the constructor
    given           \* the list the caller passed to the constructor, as the caller sees it

vars == <<build, states, transitions, initial_state, initial_index, tape, state,
          tapeIndex, errorOnEOT, halted, pc, caller, steps, tape0, transitions0,
          grown, last, registry, created, threads, handed, ensured,
          verbose, printed, shares, given>>

\* what no operation of the machine assigns
constVars == <<build, states, initial_state, initial_index, tape0, transitions0,
               registry, created, threads, handed, ensured>>

\* the machine and its program
machineVars == <<build, states, transitions, initial_state, initial_index, tape, state,
                 tapeIndex, errorOnEOT, halted, pc, caller, steps, tape0, transitions0,
                 grown, last, ensured, verbose, printed, shares, given>>

-----------------------------------------------------------------------------
(* Bounds of the model *)

MaxTapeLen == 2     \* longest initial tape
MaxRules == 2       \* longest transition list of a program
MaxSteps == 3       \* cap on the number of next() calls in a behaviour
MaxOvershoot == 2   \* how far beyond either end the initial index may lie
MaxNames == 2       \* state names asked of State.get beyond those of the program

-----------------------------------------------------------------------------
(* Symbols, actions, states *)

Blank == " "
Sentinel == "#"
Wildcard == "*"
Symbols == {"1", Blank}

\* members of the Action enum of the package build
ActionLeft == "Action.left"
ActionRight == "Action.right"
ActionStay == "Action.stay"
ActionHALT == "Action.HALT"
Action == {ActionLeft, ActionRight, ActionStay, ActionHALT}

\* the action strings of a program description
JsonActions == {"left", "right", "stay", "HALT"}

\* Action(value): the enum member with that value
ActionOf(a) ==
    CASE a = "left" -> ActionLeft
      [] a = "right" -> ActionRight
      [] a = "stay" -> ActionStay
      [] a = "HALT" -> ActionHALT

\* str.lower() on the action strings
Lower(a) == IF a = "HALT" THEN "halt" ELSE a

\* repr() of a one-word string
Repr(s) == "'" \o s \o "'"

StateNames == <<"A", "HALT_STATE">>

Transition(s, r, e, w, a) ==
    [start_state |-> s, tape_value |-> r, end_state |-> e, new_tape_value |-> w, action |-> a]

-----------------------------------------------------------------------------
(* Failures.  A failure is a record; exc = "none" is no failure. *)

NoError ==
    [exc |-> "none", message |-> "", state |-> "", tape |-> <<>>, index |-> 0,
     tape_value |-> "", tape_values |-> <<>>]

NextAfterHalt == [NoError EXCEPT !.exc = "NextAfterHalt"]

\* a slip of the lookup: the failure is built with its arguments exchanged
NoSuchTransitionRule_swapped(st, tv) ==
    [NoError EXCEPT !.exc = "NoSuchTransitionRule", !.state = tv, !.tape_value = st]

NoSuchTransitionRule(st, tv) ==
    [NoError EXCEPT !.exc = "NoSuchTransitionRule", !.state = st, !.tape_value = tv]

\* ensure_transitions raises it with the list of the symbols left over
NoSuchTransitionRuleList(st, tvs) ==
    [NoError EXCEPT !.exc = "NoSuchTransitionRule", !.state = st, !.tape_values = tvs]

EndOfTapeError(msg, st, tp, idx) ==
    [NoError EXCEPT !.exc = "EndOfTapeError", !.message = msg, !.state = st,
                    !.tape = tp, !.index = idx]

\* a list subscript outside the list, tape[tapeIndex]
IndexError == [NoError EXCEPT !.exc = "IndexError"]

\* states_name[next_state] of the script build, for an undeclared end state
KeyError == [NoError EXCEPT !.exc = "KeyError"]

AssertionError == [NoError EXCEPT !.exc = "AssertionError"]

-----------------------------------------------------------------------------
(* The machine as a value, for the operators that model its methods *)

Machine ==
    [build |-> build, transitions |-> transitions, tape |-> tape, state |-> state,
     tapeIndex |-> tapeIndex, errorOnEOT |-> errorOnEOT, halted |-> halted,
     states |-> states, verbose |-> verbose, printed |-> printed, shares |-> shares]

\* TuringMachine(program, tape0, errorOnEOT) as its constructor leaves it
FreshMachine ==
    [build |-> build, transitions |-> transitions0, tape |-> tape0,
     state |-> initial_state, tapeIndex |-> initial_index,
     errorOnEOT |-> errorOnEOT, halted |-> FALSE, states |-> states,
     verbose |-> verbose, printed |-> <<>>, shares |-> TRUE]

\* 0 <= tapeIndex < len(tape)
InTape(m) == m.tapeIndex >= 0 /\ m.tapeIndex < Len(m.tape)

\* tape[tapeIndex] for an index within the tape
Cell(m) == m.tape[m.tapeIndex + 1]

\* a slip of the map: the first rule for a key is kept
transition_for_first(trs, st, tv) ==
    LET hits == {i \in 1..Len(trs) : trs[i].start_state = st /\ trs[i].tape_value = tv}
    IN  IF hits = {} THEN 0 ELSE CHOOSE i \in hits : \A j \in hits : i <= j

\* the dict comprehension {(start_state, tape_value): i ...}: a later rule for a
\* key replaces an earlier one; 0 when the key is absent
transition_for(trs, st, tv) ==
    LET hits == {i \in 1..Len(trs) : trs[i].start_state = st /\ trs[i].tape_value = tv}
    IN  IF hits = {} THEN 0 ELSE CHOOSE i \in hits : \A j \in hits : j <= i

understands(trs, st, tv) == transition_for(trs, st, tv) # 0

\* TransitionMap.get_result: the rule for the key, its wildcard write symbol
\* resolved to the rule's read symbol and stored back in the rule
get_result(trs, st, tv) ==
    LET i == transition_for(trs, st, tv)
    IN  IF i = 0
        THEN [err |-> NoSuchTransitionRule(st, tv), transitions |-> trs,
              state |-> "", tape_value |-> "", action |-> ""]
        ELSE IF trs[i].new_tape_value = Wildcard /\ tv # trs[i].tape_value
        THEN [err |-> AssertionError, transitions |-> trs,
              state |-> "", tape_value |-> "", action |-> ""]
        ELSE LET resolved == IF trs[i].new_tape_value = Wildcard
                             THEN [trs EXCEPT ![i].new_tape_value = trs[i].tape_value]
                             ELSE trs
             IN  [err |-> NoError, transitions |-> resolved,
                  state |-> resolved[i].end_state,
                  tape_value |-> resolved[i].new_tape_value,
                  action |-> resolved[i].action]

\* the lookup of the script build's next(): the rule as it stands, its action lowered
legacy_lookup(trs, st, tv) ==
    LET i == transition_for(trs, st, tv)
    IN  IF i = 0
        THEN [err |-> NoSuchTransitionRule(Repr(st), Repr(tv)), transitions |-> trs,
              state |-> "", tape_value |-> "", action |-> ""]
        ELSE [err |-> NoError, transitions |-> trs,
              state |-> trs[i].end_state,
              tape_value |-> trs[i].new_tape_value,
              action |-> Lower(trs[i].action)]

lookup(m) ==
    IF m.build = "python"
    THEN get_result(m.transitions, m.state, Cell(m))
    ELSE legacy_lookup(m.transitions, m.state, Cell(m))

\* a slip of _perform_action: the HALT branch also moves the head
perform_action_halt_moves(m, action) ==
    IF m.build = "python"
    THEN IF action = ActionLeft THEN [m EXCEPT !.tapeIndex = @ - 1]
         ELSE IF action = ActionRight THEN [m EXCEPT !.tapeIndex = @ + 1]
         ELSE IF action = ActionHALT THEN [m EXCEPT !.halted = TRUE, !.tapeIndex = @ + 1]
         ELSE m
    ELSE IF action = "left" THEN [m EXCEPT !.tapeIndex = @ - 1]
         ELSE IF action = "right" THEN [m EXCEPT !.tapeIndex = @ + 1]
         ELSE IF action = "halt" THEN [m EXCEPT !.halted = TRUE, !.tapeIndex = @ + 1]
         ELSE m

\* a slip of _perform_action: the right branch moves the head two cells
perform_action_right_twice(m, action) ==
    IF m.build = "python"
    THEN IF action = ActionLeft THEN [m EXCEPT !.tapeIndex = @ - 1]
         ELSE IF action = ActionRight THEN [m EXCEPT !.tapeIndex = @ + 2]
         ELSE IF action = ActionHALT THEN [m EXCEPT !.halted = TRUE]
         ELSE m
    ELSE IF action = "left" THEN [m EXCEPT !.tapeIndex = @ - 1]
         ELSE IF action = "right" THEN [m EXCEPT !.tapeIndex = @ + 2]
         ELSE IF action = "halt" THEN [m EXCEPT !.halted = TRUE]
         ELSE m

\* TuringMachine._perform_action, and the if/elif chain of the script build
perform_action(m, action) ==
    IF m.build = "python"
    THEN IF action = ActionLeft THEN [m EXCEPT !.tapeIndex = @ - 1]
         ELSE IF action = ActionRight THEN [m EXCEPT !.tapeIndex = @ + 1]
         ELSE IF action = ActionHALT THEN [m EXCEPT !.halted = TRUE]
         ELSE m
    ELSE IF action = "left" THEN [m EXCEPT !.tapeIndex = @ - 1]
         ELSE IF action = "right" THEN [m EXCEPT !.tapeIndex = @ + 1]
         ELSE IF action = "halt" THEN [m EXCEPT !.halted = TRUE]
         ELSE m

\* a slip of _check_end_of_tape: the prepend branch forgets tapeIndex = 0
check_end_of_tape_keeps_index(m) ==
    IF m.tapeIndex < 0 /\ m.errorOnEOT
    THEN [m |-> m, old_tape_value |-> "",
          err |-> EndOfTapeError("Fell off left side", m.state, m.tape, m.tapeIndex + 1)]
    ELSE IF m.tapeIndex >= Len(m.tape) /\ m.errorOnEOT
    THEN [m |-> m, old_tape_value |-> "",
          err |-> EndOfTapeError("Fell off right side", m.state, m.tape, m.tapeIndex - 1)]
    ELSE IF m.tapeIndex < 0 /\ ~m.errorOnEOT
    THEN [m |-> [m EXCEPT !.tape = <<Blank>> \o m.tape, !.shares = FALSE],
          old_tape_value |-> Sentinel, err |-> NoError]
    ELSE IF m.tapeIndex >= Len(m.tape) /\ ~m.errorOnEOT
    THEN [m |-> [m EXCEPT !.tape = Append(m.tape, Blank)],
          old_tape_value |-> Sentinel, err |-> NoError]
    ELSE [m |-> m, old_tape_value |-> Cell(m), err |-> NoError]

\* a slip of _check_end_of_tape: the failure carries tapeIndex itself
check_end_of_tape_raw_index(m) ==
    IF m.tapeIndex < 0 /\ m.errorOnEOT
    THEN [m |-> m, old_tape_value |-> "",
          err |-> EndOfTapeError("Fell off left side", m.state, m.tape, m.tapeIndex)]
    ELSE IF m.tapeIndex >= Len(m.tape) /\ m.errorOnEOT
    THEN [m |-> m, old_tape_value |-> "",
          err |-> EndOfTapeError("Fell off right side", m.state, m.tape, m.tapeIndex)]
    ELSE IF m.tapeIndex < 0 /\ ~m.errorOnEOT
    THEN [m |-> [m EXCEPT !.tape = <<Blank>> \o m.tape, !.tapeIndex = 0, !.shares = FALSE],
          old_tape_value |-> Sentinel, err |-> NoError]
    ELSE IF m.tapeIndex >= Len(m.tape) /\ ~m.errorOnEOT
    THEN [m |-> [m EXCEPT !.tape = Append(m.tape, Blank)],
          old_tape_value |-> Sentinel, err |-> NoError]
    ELSE [m |-> m, old_tape_value |-> Cell(m), err |-> NoError]

\* a slip of _check_end_of_tape: the new cell is filled with the marker it returns
check_end_of_tape_stores_marker(m) ==
    IF m.tapeIndex < 0 /\ m.errorOnEOT
    THEN [m |-> m, old_tape_value |-> "",
          err |-> EndOfTapeError("Fell off left side", m.state, m.tape, m.tapeIndex + 1)]
    ELSE IF m.tapeIndex >= Len(m.tape) /\ m.errorOnEOT
    THEN [m |-> m, old_tape_value |-> "",
          err |-> EndOfTapeError("Fell off right side", m.state, m.tape, m.tapeIndex - 1)]
    ELSE IF m.tapeIndex < 0 /\ ~m.errorOnEOT
    THEN [m |-> [m EXCEPT !.tape = <<Sentinel>> \o m.tape, !.tapeIndex = 0, !.shares = FALSE],
          old_tape_value |-> Sentinel, err |-> NoError]
    ELSE IF m.tapeIndex >= Len(m.tape) /\ ~m.errorOnEOT
    THEN [m |-> [m EXCEPT !.tape = Append(m.tape, Sentinel)],
          old_tape_value |-> Sentinel, err |-> NoError]
    ELSE [m |-> m, old_tape_value |-> Cell(m), err |-> NoError]

\* TuringMachine._check_end_of_tape; [' '] + self.tape is a new list, append()
\* changes the list in place
check_end_of_tape(m) ==
    IF m.tapeIndex < 0 /\ m.errorOnEOT
    THEN [m |-> m, old_tape_value |-> "",
          err |-> EndOfTapeError("Fell off left side", m.state, m.tape, m.tapeIndex + 1)]
    ELSE IF m.tapeIndex >= Len(m.tape) /\ m.errorOnEOT
    THEN [m |-> m, old_tape_value |-> "",
          err |-> EndOfTapeError("Fell off right side", m.state, m.tape, m.tapeIndex - 1)]
    ELSE IF m.tapeIndex < 0 /\ ~m.errorOnEOT
    THEN [m |-> [m EXCEPT !.tape = <<Blank>> \o m.tape, !.tapeIndex = 0, !.shares = FALSE],
          old_tape_value |-> Sentinel, err |-> NoError]
    ELSE IF m.tapeIndex >= Len(m.tape) /\ ~m.errorOnEOT
    THEN [m |-> [m EXCEPT !.tape = Append(m.tape, Blank)],
          old_tape_value |-> Sentinel, err |-> NoError]
    ELSE [m |-> m, old_tape_value |-> Cell(m), err |-> NoError]

\* a slip of next(): the pair is made of the cell as the lookup sees it
this_step_of_cell(m, old_tape_value) == <<m.state, Cell(m)>>

\* this_step = (self.state, old_tape_value), made after the boundary check
this_step(m, old_tape_value) == <<m.state, old_tape_value>>

\* what the trace line of a step shows: the state after the step, the symbol
\* before it, the states, symbols and action of the transition
TraceRecord(m, step, g) ==
    [current |-> m.state, old |-> step[2], from |-> step[1], to |-> g.state,
     written |-> g.tape_value, action |-> g.action]

\* a slip of next(): the trace branch puts the state it prints back
emit_restores(m, rec) ==
    IF m.verbose THEN [m EXCEPT !.printed = Append(@, rec), !.state = rec.from] ELSE m

\* if self.verbose: print(...)
emit(m, rec) == IF m.verbose THEN [m EXCEPT !.printed = Append(@, rec)] ELSE m

\* the points of next() at which a cancellation can arrive, in program order:
\* before its first statement, between the two assignments of the prepend
\* branch, after the boundary check, after the lookup, after the tape write,
\* after the state assignment; "done" is the whole call
StopPoints == {"start", "grow", "checked", "looked_up", "written", "state_set"}

Outcome(m, e, r) == [m |-> m, err |-> e, ret |-> r]

\* TuringMachine.next run up to a stop point ("done": all of it)
next_to(m, stop) ==
    IF stop = "start" THEN Outcome(m, NoError, <<>>)
    ELSE IF m.halted THEN Outcome(m, NextAfterHalt, <<>>)
    ELSE IF stop = "grow"
    THEN Outcome([m EXCEPT !.tape = <<Blank>> \o m.tape, !.shares = FALSE], NoError, <<>>)
    ELSE
    LET c == check_end_of_tape(m)
    IN  IF c.err.exc # "none" THEN Outcome(c.m, c.err, <<>>)
        ELSE IF stop = "checked" THEN Outcome(c.m, NoError, <<>>)
        ELSE IF ~InTape(c.m) THEN Outcome(c.m, IndexError, <<>>)
        ELSE
        LET g == lookup(c.m)
            m1 == [c.m EXCEPT !.transitions = g.transitions]
            m2 == [m1 EXCEPT !.tape[c.m.tapeIndex + 1] = g.tape_value]
            m3 == [m2 EXCEPT !.state = g.state]
            m4 == perform_action(m3, g.action)
            declared == \E k \in 1..Len(m.states) : m.states[k] = g.state
        IN  IF g.err.exc # "none" THEN Outcome(c.m, g.err, <<>>)
            ELSE IF stop = "looked_up" THEN Outcome(m1, NoError, <<>>)
            ELSE IF stop = "written" THEN Outcome(m2, NoError, <<>>)
            ELSE IF m.build = "legacy" /\ ~declared THEN Outcome(m2, KeyError, <<>>)
            ELSE IF stop = "state_set" THEN Outcome(m3, NoError, <<>>)
            ELSE Outcome(emit(m4, TraceRecord(m4, this_step(c.m, c.old_tape_value), g)),
                         NoError, this_step(c.m, c.old_tape_value))

\* a slip of next(): the halted test is missing
next_unguarded(m) == next_to([m EXCEPT !.halted = FALSE], "done")

\* TuringMachine.next
next(m) == next_to(m, "done")

\* whether next() gets as far as the stop point
Reaches(m, stop) ==
    /\ stop # "start" => ~m.halted
    /\ stop = "grow" => (m.tapeIndex < 0 /\ ~m.errorOnEOT)
    /\ next_to(m, stop).err.exc = "none"

\* ''.join(tape)
RECURSIVE Join(_)
Join(seq) == IF seq = <<>> THEN "" ELSE Head(seq) \o Join(Tail(seq))

\* str.lstrip() on the symbols of a tape: the blanks in front go
RECURSIVE LStrip(_)
LStrip(seq) == IF seq # <<>> /\ Head(seq) = Blank THEN LStrip(Tail(seq)) ELSE seq

\* str.rstrip()
RECURSIVE RStrip(_)
RStrip(seq) ==
    IF seq # <<>> /\ seq[Len(seq)] = Blank THEN RStrip(SubSeq(seq, 1, Len(seq) - 1)) ELSE seq

\* a slip of print_tape_trimmed: lstrip() for strip()
trimmed_left(tp) == Join(LStrip(tp))

\* ''.join(self.tape).strip(), put together again
trimmed(tp) == Join(RStrip(LStrip(tp)))

\* TuringMachine.print_tape_trimmed: what it prints
print_tape_trimmed(m) == Repr(trimmed(m.tape))

\* TuringMachine.dump_tape: it reads tape[tapeIndex], where a negative index
\* counts from the end of the list
dump_tape(m) ==
    IF m.tapeIndex < Len(m.tape) /\ m.tapeIndex >= -Len(m.tape) THEN NoError ELSE IndexError

\* a slip of run(): the loop does not look at halted
run_continues_always(m) == TRUE

\* while not self.halted
run_continues(m) == ~m.halted

\* TuringMachine.run with no cancellation, for at most fuel calls of next():
\* where it ends (done), or how far it got
RECURSIVE run_from(_, _)
run_from(m, fuel) ==
    IF ~run_continues(m) THEN [m |-> m, err |-> NoError, done |-> TRUE]
    ELSE IF fuel = 0 THEN [m |-> m, err |-> NoError, done |-> FALSE]
    ELSE LET r == next(m)
         IN  IF r.err.exc # "none"
             THEN [m |-> r.m, err |-> r.err, done |-> TRUE]
             ELSE run_from(r.m, fuel - 1)

\* x in seq
Has(seq, x) == \E i \in 1..Len(seq) : seq[i] = x

\* list.remove(x) for x in the list: the first occurrence goes
Remove(seq, x) ==
    LET i == CHOOSE k \in 1..Len(seq) :
                 seq[k] = x /\ \A j \in 1..(k - 1) : seq[j] # x
    IN  SubSeq(seq, 1, i - 1) \o SubSeq(seq, i + 1, Len(seq))

ValueError == [NoError EXCEPT !.exc = "ValueError"]

\* the inner loop of ensure_transitions for one state, from transition k on:
\* the symbols of tvs left without a rule starting at st
RECURSIVE ensure_scan(_, _, _, _)
ensure_scan(trs, k, st, tvs) ==
    IF k > Len(trs) THEN tvs
    ELSE ensure_scan(trs, k + 1, st,
                     IF trs[k].start_state = st /\ Has(tvs, trs[k].tape_value)
                     THEN Remove(tvs, trs[k].tape_value)
                     ELSE tvs)

\* the outer loop of ensure_transitions from state k on; the list tape_values
\* is the one made before the loop
RECURSIVE ensure_states(_, _, _, _)
ensure_states(sts, k, trs, tvs) ==
    IF k > Len(sts) THEN NoError
    ELSE LET rest == ensure_scan(trs, 1, sts[k], tvs)
         IN  IF Len(rest) # 0
             THEN NoSuchTransitionRuleList(sts[k], rest)
             ELSE ensure_states(sts, k + 1, trs, rest)

\* the default of the parameter tape_values, and the list of the script build
DefaultTapeValues == <<"1", "0", Blank>>

\* the inner loop of the script build: remove() without a membership test
RECURSIVE legacy_scan(_, _, _, _)
legacy_scan(trs, k, st, r) ==
    IF k > Len(trs) \/ r.err.exc # "none" THEN r
    ELSE legacy_scan(trs, k + 1, st,
                     IF trs[k].start_state # st THEN r
                     ELSE IF Has(r.tvs, trs[k].tape_value)
                     THEN [r EXCEPT !.tvs = Remove(r.tvs, trs[k].tape_value)]
                     ELSE [r EXCEPT !.err = ValueError])

\* the outer loop of the script build: a new list for every state
RECURSIVE legacy_states(_, _, _)
legacy_states(sts, k, trs) ==
    IF k > Len(sts) THEN NoError
    ELSE LET r == legacy_scan(trs, 1, sts[k], [tvs |-> DefaultTapeValues, err |-> NoError])
         IN  IF r.err.exc # "none" THEN r.err
             ELSE IF Len(r.tvs) # 0 THEN NoSuchTransitionRuleList(sts[k], r.tvs)
             ELSE legacy_states(sts, k + 1, trs)

\* TuringMachine.ensure_transitions: the failure it raises, NoError when it returns
ensure_transitions(m, tape_values) ==
    IF m.build = "python"
    THEN ensure_states(m.states, 1, m.transitions, tape_values)
    ELSE legacy_states(m.states, 1, m.transitions)

-----------------------------------------------------------------------------
(* State objects and the registry *)

\* names State.get is asked for that no program has declared
FreshNames == <<"B", "C", "D", "E">>

Names == {StateNames[i] : i \in 1..Len(StateNames)} \cup {FreshNames[i] : i \in 1..MaxNames}

Threads == {1, 2}

\* a State object: its field name, and which of the objects constructed with
\* that name it is (what tells objects apart)
StateObject(n, k) == [name |-> n, serial |-> k]

NoState == StateObject("", 0)

\* equatable.__eq__: same type and equal fields; the only field is name
state_eq(a, b) == a.name = b.name

\* hashable.__hash__: object.__hash__ of the object combined with the hashes of
\* its fields
state_hash(a) == <<a.serial, a.name>>

\* a slip of State.get: the membership test of the stored name is lost
get_check_always(reg, n) == TRUE

\* name not in cls.registry
get_check(reg, n) == reg[n] = 0

\* cls.registry[name] = cls(name, State._init_token)
get_insert(reg, crt, n) ==
    [registry |-> [reg EXCEPT ![n] = crt[n] + 1], created |-> [crt EXCEPT ![n] = @ + 1]]

\* return cls.registry[name]
get_return(reg, n) == StateObject(n, reg[n])

\* State.get run from its first line to its return by one thread
State_get(reg, crt, n) ==
    LET r == IF get_check(reg, n) THEN get_insert(reg, crt, n)
             ELSE [registry |-> reg, created |-> crt]
    IN  [registry |-> r.registry, created |-> r.created, ret |-> get_return(r.registry, n)]

-----------------------------------------------------------------------------
(* Programs and tapes of the model *)

SeqsUpTo(S, n) == UNION {[1..k -> S] : k \in 0..n}

\* the rules programs are made of, actions as a program description spells them
RulePool ==
    { Transition("A", "1", "A", "1", "right"),
      Transition("A", Blank, "HALT_STATE", Blank, "HALT"),
      Transition("A", "1", "HALT_STATE", Wildcard, "left"),
      Transition("A", Blank, "A", Wildcard, "left"),
      Transition("A", Blank, "A", "1", "stay"),
      Transition("HALT_STATE", Blank, "A", Blank, "right") }

\* Transition(...) called with members of Action, as its signature asks
WithActionMembers(p) == [i \in 1..Len(p) |-> [p[i] EXCEPT !.action = ActionOf(@)]]

Programs == SeqsUpTo(RulePool, MaxRules)

Tapes == SeqsUpTo(Symbols, MaxTapeLen)

-----------------------------------------------------------------------------
(* What the last operation did *)

\* op: the operation; err: the failure it ended with, or that run() caught;
\* ret: what next() returned; value: what run() or accepts() returned ("raised"
\* when the failure left it); stepped: next() was called; interrupted: a
\* cancellation ended it; arg: the symbols ensure_transitions was called with
Did(op, e, r, v, stepped, interrupted) ==
    [op |-> op, err |-> e, ret |-> r, value |-> v, stepped |-> stepped,
     interrupted |-> interrupted, arg |-> <<>>]

\* Program(...) and TuringMachine(program, tape, err_on_eot, verbose), the tape
\* given as a list; the script build's constructor leaves errorOnEOT and
\* verbose true.  loaded: the Program comes from Program.from_file, whose
\* Transition.fromjson hands the action string of the description on as it is;
\* otherwise Transition(...) is called with members of Action.  The package
\* build has called State.get for the names of the program; the script build
\* has no State class and works on the description itself.
Constructed(loaded, verboses) ==
    /\ build \in {"python", "legacy"}
    /\ states = StateNames
    /\ \E p \in Programs :
         transitions = IF build = "python" /\ ~loaded THEN WithActionMembers(p) ELSE p
    /\ transitions0 = transitions
    /\ initial_state = "A"
    /\ tape \in Tapes
    /\ tape0 = tape
    /\ initial_index \in (0 - MaxOvershoot)..(Len(tape) + MaxOvershoot - 1)
    /\ state = initial_state
    /\ tapeIndex = initial_index
    /\ errorOnEOT \in (IF build = "python" THEN BOOLEAN ELSE {TRUE})
    /\ halted = FALSE
    /\ pc = "ready"
    /\ caller = "none"
    /\ steps = 0
    /\ grown = <<0, 0>>
    /\ last = Did("init", NoError, <<>>, "None", FALSE, FALSE)
    /\ registry = [n \in Names |-> IF build = "python" /\ Has(StateNames, n) THEN 1 ELSE 0]
    /\ created = registry
    /\ threads = [t \in Threads |-> [pc |-> "idle", name |-> "", ret |-> NoState]]
    /\ handed = {}
    /\ ensured = {}
    /\ verbose \in (IF build = "python" THEN verboses ELSE {TRUE})
    /\ printed = <<>>
    /\ shares = TRUE
    /\ given = tape

\* machines built by a caller that passes members of Action, verbose left at
\* its default
Init == Constructed(FALSE, {TRUE})

\* the machine's fields become those of m; the caller's list is the machine's
\* tape for as long as the machine has bound no new list
Becomes(m) ==
    /\ transitions' = m.transitions
    /\ tape' = m.tape
    /\ state' = m.state
    /\ tapeIndex' = m.tapeIndex
    /\ halted' = m.halted
    /\ verbose' = m.verbose
    /\ printed' = m.printed
    /\ shares' = m.shares
    /\ given' = IF m.shares THEN m.tape ELSE given

\* one more step taken with the head off the left / right edge, errors disabled
Grown(m) ==
    IF m.errorOnEOT THEN grown
    ELSE IF m.tapeIndex < 0 THEN <<grown[1] + 1, grown[2]>>
    ELSE IF m.tapeIndex >= Len(m.tape) THEN <<grown[1], grown[2] + 1>>
    ELSE grown

-----------------------------------------------------------------------------
(* Operations *)

\* the driver goes on calling the machine until a call fails or is cancelled:
\* it then reports and terminates
DriverGoesOn == last.err.exc = "none" /\ ~last.interrupted

\* the driver calls next() itself (the machine is an iterator)
CallNext ==
    /\ pc = "ready"
    /\ DriverGoesOn
    /\ halted \/ steps < MaxSteps
    /\ LET r == next(Machine)
       IN  /\ Becomes(r.m)
           /\ last' = Did("next", r.err, r.ret, "None", TRUE, FALSE)
    /\ steps' = IF halted THEN steps ELSE steps + 1
    /\ grown' = IF halted THEN grown ELSE Grown(Machine)
    /\ UNCHANGED <<constVars, errorOnEOT, pc, caller>>

\* run() is entered
StartRun ==
    /\ pc = "ready"
    /\ DriverGoesOn
    /\ pc' = "running"
    /\ caller' = "run"
    /\ last' = Did("enter_run", NoError, <<>>, "None", FALSE, FALSE)
    /\ UNCHANGED <<constVars, transitions, tape, state, tapeIndex, errorOnEOT, halted,
                   verbose, printed, shares, given,
                   steps, grown>>

\* accepts() builds its machine and enters run(); the machine it builds is the
\* freshly constructed one
StartAccepts ==
    /\ pc = "ready"
    /\ build = "python"
    /\ last.op = "init"
    /\ pc' = "running"
    /\ caller' = "accepts"
    /\ last' = Did("enter_accepts", NoError, <<>>, "None", FALSE, FALSE)
    /\ UNCHANGED <<constVars, transitions, tape, state, tapeIndex, errorOnEOT, halted,
                   verbose, printed, shares, given,
                   steps, grown>>

\* what a call of run() made by c yields when it returns normally
Returned(c) == IF c = "accepts" THEN "True" ELSE "None"

\* a slip of run(): its handlers catch every failure
run_catches_all(b, exc) == exc # "none"

\* the except clauses of run(): KeyboardInterrupt, and NextAfterHalt in the
\* script build
run_catches(b, exc) ==
    \/ exc = "KeyboardInterrupt"
    \/ b = "legacy" /\ exc = "NextAfterHalt"

\* a slip of accepts(): it takes running off the tape for a rejection too
accepts_catches_eot(exc) == exc \in {"NoSuchTransitionRule", "EndOfTapeError"}

\* the except clause of accepts()
accepts_catches(exc) == exc = "NoSuchTransitionRule"

\* how a call made by c ends when run()'s try block raises e in machine m: a
\* handler of run() prints, calls dump_tape() and returns; otherwise the failure
\* leaves run(), and accepts() returns False for the failure it catches
Ending(c, m, e, stepped) ==
    IF run_catches(m.build, e.exc)
    THEN LET d == dump_tape(m)
         IN  Did(c, d, <<>>, IF d.exc = "none" THEN Returned(c) ELSE "raised",
                 stepped, e.exc = "KeyboardInterrupt")
    ELSE IF c = "accepts" /\ accepts_catches(e.exc)
    THEN Did(c, e, <<>>, "False", stepped, FALSE)
    ELSE Did(c, e, <<>>, "raised", stepped, FALSE)

KeyboardInterrupt == [NoError EXCEPT !.exc = "KeyboardInterrupt"]

\* one iteration of run()'s loop: next() is called; a failure of it ends the call
RunStep ==
    /\ pc = "running"
    /\ run_continues(Machine)
    /\ steps < MaxSteps
    /\ LET r == next(Machine)
       IN  /\ Becomes(r.m)
           /\ IF r.err.exc = "none"
              THEN /\ pc' = "running"
                   /\ last' = Did("next", NoError, r.ret, "None", TRUE, FALSE)
              ELSE /\ pc' = "ready"
                   /\ last' = Ending(caller, r.m, r.err, TRUE)
    /\ steps' = steps + 1
    /\ grown' = Grown(Machine)
    /\ UNCHANGED <<constVars, errorOnEOT, caller>>

\* run()'s loop condition finds halted true: run() returns
RunExit ==
    /\ pc = "running"
    /\ ~run_continues(Machine)
    /\ pc' = "ready"
    /\ last' = Did(caller, NoError, <<>>, Returned(caller), FALSE, FALSE)
    /\ UNCHANGED <<constVars, transitions, tape, state, tapeIndex, errorOnEOT, halted,
                   verbose, printed, shares, given,
                   caller, steps, grown>>

\* KeyboardInterrupt arrives while run() is in its try block, next() being at
\* the stop point
Interrupt(stop) ==
    /\ pc = "running"
    /\ stop # "start" => steps < MaxSteps
    /\ Reaches(Machine, stop)
    /\ LET p == next_to(Machine, stop).m
       IN  /\ Becomes(p)
           /\ last' = Ending(caller, p, KeyboardInterrupt, stop # "start")
    /\ pc' = "ready"
    /\ steps' = IF stop = "start" THEN steps ELSE steps + 1
    /\ grown' = IF stop = "start" THEN grown ELSE Grown(Machine)
    /\ UNCHANGED <<constVars, errorOnEOT, caller>>

\* machine.initialize on a class that defines no such method
AttributeError == [NoError EXCEPT !.exc = "AttributeError"]

\* initialize(err_on_eot), verbose left at its default: a method of the script
\* build; the machine of the
\* package build has none, and the call its main() makes fails
Initialize(e) ==
    /\ pc = "ready"
    /\ DriverGoesOn
    /\ last.op # "initialize"
    /\ IF build = "legacy"
       THEN /\ halted' = FALSE
            /\ errorOnEOT' = e
            /\ verbose' = TRUE
            /\ last' = Did("initialize", NoError, <<>>, "None", FALSE, FALSE)
       ELSE /\ UNCHANGED <<halted, errorOnEOT, verbose>>
            /\ last' = Did("initialize", AttributeError, <<>>, "raised", FALSE, FALSE)
    /\ UNCHANGED <<constVars, transitions, tape, state, tapeIndex, pc, caller, steps, grown,
                   printed, shares, given>>

Next ==
    \/ CallNext
    \/ StartRun
    \/ StartAccepts
    \/ RunStep
    \/ RunExit
    \/ Interrupt("start")
    \/ \E e \in BOOLEAN : Initialize(e)

\* the machine and its driver, run() cancelled between steps only
Spec == Init /\ [][Next]_vars

\* the same, a cancellation arriving at any statement of next() as well
NextCancel ==
    \/ Next
    \/ \E stop \in StopPoints \ {"start"} : Interrupt(stop)

SpecCancel == Init /\ [][NextCancel]_vars

\* the symbol lists ensure_transitions is called with
ExpectedSymbols == {<<"1">>, <<Blank>>, <<"1", Blank>>, <<Blank, "1">>, DefaultTapeValues}

\* ensure_transitions(tape_values); the script build's takes no argument
EnsureTransitions(tape_values) ==
    /\ pc = "ready"
    /\ DriverGoesOn
    /\ build = "legacy" => tape_values = DefaultTapeValues
    /\ last' = [Did("ensure_transitions", ensure_transitions(Machine, tape_values),
                    <<>>, "None", FALSE, FALSE) EXCEPT !.arg = tape_values]
    /\ ensured' = IF ensure_transitions(Machine, tape_values).exc = "none"
                  THEN ensured \cup {tape_values}
                  ELSE ensured
    /\ UNCHANGED <<build, states, initial_state, initial_index, tape0, transitions0,
                   registry, created, threads, handed,
                   transitions, tape, state, tapeIndex, errorOnEOT, halted,
                   verbose, printed, shares, given,
                   pc, caller, steps, grown>>

\* the driver validates the program, then steps the machine
NextEnsure ==
    \/ \E tv \in ExpectedSymbols : EnsureTransitions(tv)
    \/ CallNext

SpecEnsure == Init /\ [][NextEnsure]_vars

\* Program.known_tape_values: set.discard(x) does nothing when x is absent,
\* set.remove(x) raises KeyError then
known_tape_values(trs) ==
    LET start_values == {trs[k].tape_value : k \in 1..Len(trs)}
        written_values == {trs[k].new_tape_value : k \in 1..Len(trs)}
        all == start_values \cup written_values
    IN  IF Wildcard \notin all
        THEN [err |-> KeyError, start_values |-> {}, written_values |-> {}, all |-> {}]
        ELSE [err |-> NoError,
              start_values |-> start_values \ {Wildcard},
              written_values |-> written_values \ {Wildcard},
              all |-> all \ {Wildcard}]

\* program.known_tape_values is read
KnownTapeValues ==
    /\ pc = "ready"
    /\ DriverGoesOn
    /\ build = "python"
    /\ last.op # "known_tape_values"
    /\ LET v == known_tape_values(transitions)
       IN  last' = Did("known_tape_values", v.err,
                       <<v.start_values, v.written_values, v.all>>, "None", FALSE, FALSE)
    /\ UNCHANGED <<constVars, transitions, tape, state, tapeIndex, errorOnEOT, halted,
                   verbose, printed, shares, given,
                   pc, caller, steps, grown>>

\* the program's symbols are asked for before, between and after steps
NextSymbols ==
    \/ KnownTapeValues
    \/ CallNext

SpecSymbols == Init /\ [][NextSymbols]_vars

\* machines on Programs read from a program description
InitLoaded == Constructed(TRUE, {TRUE})

NextLoaded ==
    \/ CallNext
    \/ StartRun
    \/ StartAccepts
    \/ RunStep
    \/ RunExit

SpecLoaded == InitLoaded /\ [][NextLoaded]_vars

\* machines built with verbose on and with verbose off
InitVerbose == Constructed(FALSE, BOOLEAN)

NextVerbose ==
    \/ CallNext
    \/ StartRun
    \/ RunStep
    \/ RunExit

SpecVerbose == InitVerbose /\ [][NextVerbose]_vars

-----------------------------------------------------------------------------
(* State.get, called apart from the machine *)

\* the program of the scenarios
ScenarioRules ==
    << Transition("A", "1", "A", "1", "right"),
       Transition("A", Blank, "HALT_STATE", Blank, "HALT") >>

\* the package build with the scenario program loaded and a machine built on
\* the tape ['1', '1']
InitScenario ==
    /\ Init
    /\ build = "python"
    /\ transitions0 = WithActionMembers(ScenarioRules)
    /\ tape0 = <<"1", "1">>
    /\ initial_index = 0
    /\ errorOnEOT

Idle(t) == threads[t].pc = "idle"

\* State.get(n) called by thread t and run to its return
StateGet(t, n) ==
    /\ \A u \in Threads : Idle(u)
    /\ LET r == State_get(registry, created, n)
       IN  /\ registry' = r.registry
           /\ created' = r.created
           /\ threads' = [threads EXCEPT ![t] = [pc |-> "idle", name |-> n, ret |-> r.ret]]
           /\ handed' = handed \cup {r.ret}
    /\ UNCHANGED machineVars

NextRegistry == \E t \in Threads, n \in Names : StateGet(t, n)

\* calls of State.get one after the other
SpecRegistry == InitScenario /\ [][NextRegistry]_vars

\* thread t enters State.get(n) and evaluates the membership test
GetCheck(t, n) ==
    /\ Idle(t)
    /\ threads' = [threads EXCEPT ![t] =
                      [pc |-> IF get_check(registry, n) THEN "insert" ELSE "return",
                       name |-> n, ret |-> @.ret]]
    /\ UNCHANGED <<machineVars, registry, created, handed>>

\* thread t constructs the State and stores it
GetInsert(t) ==
    /\ threads[t].pc = "insert"
    /\ LET r == get_insert(registry, created, threads[t].name)
       IN  /\ registry' = r.registry
           /\ created' = r.created
    /\ threads' = [threads EXCEPT ![t].pc = "return"]
    /\ UNCHANGED <<machineVars, handed>>

\* thread t reads the registry and returns
GetReturn(t) ==
    /\ threads[t].pc = "return"
    /\ LET o == get_return(registry, threads[t].name)
       IN  /\ threads' = [threads EXCEPT ![t].pc = "idle", ![t].ret = o]
           /\ handed' = handed \cup {o}
    /\ UNCHANGED <<machineVars, registry, created>>

NextThreads ==
    \/ \E t \in Threads, n \in Names : GetCheck(t, n)
    \/ \E t \in Threads : GetInsert(t)
    \/ \E t \in Threads : GetReturn(t)

\* two threads calling State.get, switched between its statements
SpecThreads == InitScenario /\ [][NextThreads]_vars

-----------------------------------------------------------------------------
(* Properties *)

\* which of Left, Right, Stay, Halt a rule's action is: a member of Action in
\* the package build, a string compared without regard to case in the script build
ActionKind(b, a) ==
    IF b = "python"
    THEN CASE a = ActionLeft -> "Left"
           [] a = ActionRight -> "Right"
           [] a = ActionStay -> "Stay"
           [] a = ActionHALT -> "Halt"
           [] OTHER -> "none"
    ELSE CASE a \in {"left"} -> "Left"
           [] a \in {"right"} -> "Right"
           [] a \in {"stay"} -> "Stay"
           [] a \in {"HALT", "halt"} -> "Halt"
           [] OTHER -> "none"

\* this transition is a call of next() that ran to its end or to its failure
Stepped == last'.stepped /\ ~last'.interrupted

\* the tapes agree everywhere but at 0-based index i
SameButAt(t1, t2, i) ==
    /\ Len(t1) = Len(t2)
    /\ \A j \in 1..Len(t1) : j # i + 1 => t1[j] = t2[j]

\* C1: a step of a non-halted machine whose head is within the tape and whose
\* map has a rule for (state, tape[tapeIndex]) succeeds, writes the rule's
\* write symbol into the cell under the old head, makes the rule's end state
\* current and applies the rule's action: Left moves the head one cell down,
\* Right one cell up, Stay leaves it, Halt sets halted and leaves the head; no
\* other cell changes and the tape keeps its length.
C1_StepAppliesRule ==
    [][ (Stepped /\ ~halted /\ InTape(Machine)
            /\ understands(transitions, state, Cell(Machine)))
        => LET i == transition_for(transitions, state, Cell(Machine))
               kind == ActionKind(build, transitions[i].action)
           IN  /\ last'.err.exc = "none"
               /\ SameButAt(tape', tape, tapeIndex)
               /\ tape'[tapeIndex + 1] = transitions'[i].new_tape_value
               /\ transitions[i].new_tape_value # Wildcard
                    => tape'[tapeIndex + 1] = transitions[i].new_tape_value
               /\ state' = transitions[i].end_state
               /\ kind \in {"Left", "Right", "Stay", "Halt"}
               /\ kind = "Left" => tapeIndex' = tapeIndex - 1 /\ ~halted'
               /\ kind = "Right" => tapeIndex' = tapeIndex + 1 /\ ~halted'
               /\ kind = "Stay" => tapeIndex' = tapeIndex /\ ~halted'
               /\ kind = "Halt" => tapeIndex' = tapeIndex /\ halted'
      ]_vars

\* a first step fired the rule (A, '1') -> (HALT_STATE, '*', Left) within the tape
C1_Witness ==
    /\ steps = 1 /\ last.op = "next" /\ last.err.exc = "none"
    /\ last.ret = <<"A", "1">>
    /\ state = "HALT_STATE"
    /\ tapeIndex = initial_index - 1
    /\ ~halted

\* C2: accepts() returns False exactly when a plain run of a machine built from
\* the same program, tape and mode fails with NoSuchTransitionRule; when the
\* plain run fails with EndOfTapeError, that failure leaves accepts().
C2_AcceptsFalseIffNoRule ==
    (last.op = "accepts" /\ ~last.interrupted)
    => LET o == run_from(FreshMachine, MaxSteps)
       IN  /\ o.done
           /\ last.value = "False" <=> o.err.exc = "NoSuchTransitionRule"
           /\ o.err.exc = "EndOfTapeError" => (last.value = "raised" /\ last.err = o.err)

\* accepts() returned False after at least two steps
C2_Witness == last.op = "accepts" /\ last.value = "False" /\ steps >= 2

\* some rule starts at st and reads sym
Covers(trs, st, sym) ==
    \E i \in 1..Len(trs) : trs[i].start_state = st /\ trs[i].tape_value = sym

\* the symbols of tvs no rule starting at st reads
Uncovered(trs, st, tvs) ==
    {tvs[j] : j \in {i \in 1..Len(tvs) : ~Covers(trs, st, tvs[i])}}

\* C3: ensure_transitions(expected) succeeds exactly when every state of the
\* program has a rule for every expected symbol; otherwise it fails with
\* NoSuchTransitionRule naming a state that lacks a rule and the symbols that
\* state has no rule for.
C3_EnsureIffEveryStateCovered ==
    last.op = "ensure_transitions"
    => /\ last.err.exc = "none"
            <=> \A k \in 1..Len(states) : Uncovered(transitions, states[k], last.arg) = {}
       /\ last.err.exc # "none"
            => /\ last.err.exc = "NoSuchTransitionRule"
               /\ \E k \in 1..Len(states) :
                     /\ last.err.state = states[k]
                     /\ {last.err.tape_values[j] : j \in 1..Len(last.err.tape_values)}
                          = Uncovered(transitions, states[k], last.arg)
                     /\ Uncovered(transitions, states[k], last.arg) # {}

\* C4: right after the boundary check of a step has returned without raising,
\* 0 <= tapeIndex < len(tape).
C4_HeadInTapeAfterCheck ==
    [][ (Stepped /\ ~halted /\ check_end_of_tape(Machine).err.exc = "none")
        => InTape(check_end_of_tape(Machine).m) ]_vars

\* the move an action of that kind makes
Delta(kind) == CASE kind = "Left" -> 0 - 1 [] kind = "Right" -> 1 [] OTHER -> 0

\* C5: with errors disabled a step taken with the head off the tape adds exactly
\* one cell on the side crossed, materialised blank (the rule fired in that step
\* is the one for blank, and the new cell ends the step holding what that rule
\* writes, blank when no rule fires), with the head at 0 after a prepend; the old
\* cells keep content and order; a step with the head within the tape keeps the
\* length; no transition shrinks the tape; after l steps off the left edge and r
\* off the right the tape is l + r cells longer than at construction.
C5_GrowthByOneBlank ==
    /\ [](Len(tape) = Len(tape0) + grown[1] + grown[2])
    /\ [][ /\ Len(tape') >= Len(tape)
           /\ (Stepped /\ ~halted /\ ~errorOnEOT)
              => LET fired == last'.err.exc = "none"
                     i == transition_for(transitions, state, Blank)
                     kind == ActionKind(build, transitions[i].action)
                     n == Len(tape)
                 IN  /\ InTape(Machine) => Len(tape') = n
                     /\ tapeIndex < 0
                        => /\ Len(tape') = n + 1
                           /\ SubSeq(tape', 2, n + 1) = tape
                           /\ fired => /\ i # 0
                                       /\ last'.ret = <<state, Sentinel>>
                                       /\ tape'[1] = transitions'[i].new_tape_value
                                       /\ tapeIndex' = Delta(kind)
                           /\ ~fired => /\ last'.err.exc = "NoSuchTransitionRule"
                                        /\ tape'[1] = Blank
                                        /\ tapeIndex' = 0
                     /\ tapeIndex >= n
                        => /\ Len(tape') = n + 1
                           /\ SubSeq(tape', 1, n) = tape
                           /\ fired => /\ i # 0
                                       /\ tapeIndex = n
                                       /\ last'.ret = <<state, Sentinel>>
                                       /\ tape'[n + 1] = transitions'[i].new_tape_value
                                       /\ tapeIndex' = tapeIndex + Delta(kind)
                           /\ ~fired => /\ tape'[n + 1] = Blank
                                        /\ tapeIndex' = tapeIndex
         ]_vars

\* two steps off the left edge have put two cells in front of the initial tape
C5_Witness ==
    /\ ~errorOnEOT /\ grown[1] = 2 /\ Len(tape) = Len(tape0) + 2
    /\ SubSeq(tape, 3, Len(tape)) = tape0
    /\ last.op = "next" /\ last.err.exc = "none"

IsScenario ==
    /\ transitions0 = (IF build = "python" THEN WithActionMembers(ScenarioRules)
                       ELSE ScenarioRules)
    /\ initial_index = 0

\* C6: with errors enabled a step taken with the head below 0 fails with
\* EndOfTapeError "Fell off left side" carrying tapeIndex + 1, one taken with the
\* head at or beyond len(tape) fails with "Fell off right side" carrying
\* tapeIndex - 1, and the failing step changes nothing; the scenario program on
\* the tape ['1', '1'] fails on the right with index 1.
C6_EndOfTapeErrorReported ==
    /\ []((IsScenario /\ tape0 = <<"1", "1">> /\ tape = tape0
             /\ last.err.exc = "EndOfTapeError")
          => (last.err.message = "Fell off right side" /\ last.err.index = 1))
    /\ [][ (Stepped /\ ~halted /\ errorOnEOT /\ ~InTape(Machine))
           => /\ last'.err =
                   IF tapeIndex < 0
                   THEN EndOfTapeError("Fell off left side", state, tape, tapeIndex + 1)
                   ELSE EndOfTapeError("Fell off right side", state, tape, tapeIndex - 1)
              /\ UNCHANGED <<tape, state, tapeIndex, halted, transitions>>
         ]_vars

\* the scenario has run off the right end of ['1', '1']
C6_Witness ==
    /\ IsScenario /\ tape0 = <<"1", "1">> /\ tape = tape0
    /\ last.err.exc = "EndOfTapeError" /\ last.err.index = 1
    /\ steps = 3

\* C7: next() on a halted machine fails with NextAfterHalt and changes nothing.
C7_NextAfterHalt ==
    [][ (Stepped /\ halted)
        => /\ last'.err = NextAfterHalt
           /\ UNCHANGED <<tape, state, tapeIndex, halted, transitions>> ]_vars

\* next() was called on a halted machine
C7_Witness == last.op = "next" /\ last.err.exc = "NextAfterHalt" /\ halted

\* C8: run() goes on calling next() while halted is false; when it returns with
\* no cancellation, halted is true; when next() fails with NoSuchTransitionRule
\* or EndOfTapeError, that failure leaves run() and halted is false.
C8_RunUntilHalted ==
    /\ []((last.op = "run" /\ last.value = "None" /\ ~last.interrupted) => halted)
    /\ [][ (pc = "running" /\ Stepped
              /\ next(Machine).err.exc \in {"NoSuchTransitionRule", "EndOfTapeError"})
           => /\ pc' = "ready"
              /\ last'.op = caller
              /\ last'.err = next(Machine).err
              /\ caller = "run" => last'.value = "raised"
              /\ ~halted' ]_vars
    /\ [][ (pc = "running" /\ ~halted /\ ~last'.interrupted
              /\ next(Machine).err.exc = "none")
           => pc' = "running" ]_vars

\* run() has returned after at least two steps, the machine halted
C8_Witness ==
    /\ last.op = "run" /\ last.value = "None" /\ ~last.interrupted
    /\ halted /\ steps >= 2

\* the machine in the next state
MachineNext ==
    [build |-> build', transitions |-> transitions', tape |-> tape', state |-> state',
     tapeIndex |-> tapeIndex', errorOnEOT |-> errorOnEOT', halted |-> halted',
     states |-> states', verbose |-> verbose', printed |-> printed', shares |-> shares']

\* the configuration a run ends in
Final(o) == <<o.m.tape, o.m.state, o.m.tapeIndex, o.m.halted, o.err.exc>>

\* C9: a cancellation of run() makes it return with nothing leaving it, and
\* running the machine again ends in the configuration the run would have ended
\* in without the cancellation (stated for machines built with the head on the
\* tape).
C9_CancelLeavesResumable ==
    [][ (pc = "running" /\ caller = "run" /\ last'.interrupted /\ InTape(FreshMachine))
        => /\ last'.err.exc = "none"
           /\ last'.value # "raised"
           /\ LET a == run_from(Machine, MaxSteps + 1)
                  b == run_from(MachineNext, MaxSteps + 1)
              IN  (a.done /\ b.done) => Final(a) = Final(b) ]_vars

\* C10: a step that fires a rule whose write symbol is the wildcard is given the
\* read symbol as the symbol to write and leaves the cell under the head as it
\* was; a rule's write symbol, once it is not the wildcard, never changes.
C10_WildcardWritesReadSymbol ==
    [][ /\ \A k \in 1..Len(transitions) :
              transitions[k].new_tape_value # Wildcard => transitions'[k] = transitions[k]
        /\ (Stepped /\ ~halted /\ InTape(Machine)
              /\ understands(transitions, state, Cell(Machine))
              /\ transitions0[transition_for(transitions, state, Cell(Machine))]
                    .new_tape_value = Wildcard)
           => /\ last'.err.exc = "none"
              /\ lookup(Machine).tape_value = Cell(Machine)
              /\ tape'[tapeIndex + 1] = tape[tapeIndex + 1] ]_vars

\* C11: two calls of State.get with the same name return the same State (one
\* object: equal, same hash), calls with different names return States that
\* do not compare equal, and a registered entry is never replaced or removed.
C11_GetIsIdempotent ==
    /\ [](\A a \in handed, b \in handed :
            /\ a.name = b.name => (a = b /\ state_eq(a, b) /\ state_hash(a) = state_hash(b))
            /\ a.name # b.name => ~state_eq(a, b))
    /\ [](\A t \in Threads : threads[t].ret # NoState
            => threads[t].ret = StateObject(threads[t].name, registry[threads[t].name]))
    /\ [][\A n \in Names : registry[n] # 0 => registry'[n] = registry[n]]_vars

\* both threads have asked for the new name B and hold the same State, and C
\* has been handed out as well
C11_Witness ==
    /\ threads[1].ret = StateObject("B", 1)
    /\ threads[2].ret = StateObject("B", 1)
    /\ StateObject("C", 1) \in handed
    /\ created["B"] = 1

\* C12: when two threads interleave calls of State.get, every call for a name
\* returns the same State and the registry entry of a name is never
\* overwritten: one State is constructed per name.
C12_ConcurrentGetIsAtomic ==
    /\ [](\A a \in handed, b \in handed :
            a.name = b.name => (a = b /\ state_hash(a) = state_hash(b)))
    /\ [](\A n \in Names : created[n] <= 1)
    /\ [][\A n \in Names : registry[n] # 0 => registry'[n] = registry[n]]_vars

\* the cells of a sequence
Range(seq) == {seq[j] : j \in 1..Len(seq)}

\* C13: the marker '#' is never put on the tape: after every transition each
\* cell holds what the cell held before, a blank if the cell is new, or, under
\* the head of a successful step, the write symbol of the rule fired; no cell
\* and no failure ever holds '#', which only the pair returned by a step carries.
C13_SentinelNeverStored ==
    /\ [](Sentinel \notin Range(tape) \cup Range(last.err.tape) \cup {last.err.tape_value})
    /\ [][ LET n == Len(tape)
               pre == tapeIndex < 0 /\ Len(tape') = n + 1
               shift == IF pre THEN 1 ELSE 0
               head == IF pre THEN 1 ELSE tapeIndex + 1
               read == IF InTape(Machine) THEN Cell(Machine) ELSE Blank
               i == transition_for(transitions, state, read)
           IN  \A j \in 1..Len(tape') :
                  \/ j - shift \in 1..n /\ tape'[j] = tape[j - shift]
                  \/ j - shift \notin 1..n /\ tape'[j] = Blank
                  \/ /\ j = head /\ Stepped /\ last'.err.exc = "none" /\ i # 0
                     /\ tape'[j] = transitions'[i].new_tape_value
         ]_vars

\* a step off the right end has returned the marker and left a blank cell
C13_Witness ==
    /\ last.op = "next" /\ last.err.exc = "none" /\ last.ret = <<"A", Sentinel>>
    /\ Len(tape) = Len(tape0) + 1
    /\ tape[Len(tape)] = Blank
    /\ grown[2] = 1

\* C14: a successful step returns the state current before the step and the
\* symbol before it: '#' exactly when the step made a new cell, else the cell
\* under the head before the write; the rule fired is the one for the symbol
\* really under the head (blank in a new cell), never the one for '#'.
C14_StepReturnsConfigurationBefore ==
    [][ (Stepped /\ ~halted /\ last'.err.exc = "none")
        => LET grew == Len(tape') = Len(tape) + 1
               read == IF InTape(Machine) THEN Cell(Machine) ELSE Blank
               i == transition_for(transitions, state, read)
           IN  /\ last'.ret[1] = state
               /\ grew <=> ~InTape(Machine)
               /\ last'.ret[2] = Sentinel <=> grew
               /\ ~grew => last'.ret[2] = Cell(Machine)
               /\ i # 0
               /\ read # Sentinel
               /\ state' = transitions[i].end_state
               /\ LET h == IF tapeIndex < 0 THEN 1 ELSE tapeIndex + 1
                  IN  tape'[h] = transitions'[i].new_tape_value
      ]_vars

\* a second step, taken off the left end in state HALT_STATE, fired the rule
\* for blank, returned the marker and moved right onto the old first cell
C14_Witness ==
    /\ last.op = "next" /\ last.err.exc = "none"
    /\ last.ret = <<"HALT_STATE", Sentinel>>
    /\ grown[1] = 1 /\ steps = 2
    /\ state = "A" /\ tapeIndex = 1 /\ tape[1] = Blank

\* C15: the Program is never changed: its states, every field of every one of
\* its transitions, its initial state and its initial index stay what they
\* were when the Program was constructed, whatever is done with machines on it.
C15_ProgramNeverMutated ==
    /\ [](transitions = transitions0)
    /\ [][UNCHANGED <<states, initial_state, initial_index>>]_vars

\* the read, written and all symbols of a transition list, the wildcard left out
SymbolsOf(trs) ==
    LET r == {trs[k].tape_value : k \in 1..Len(trs)} \ {Wildcard}
        w == {trs[k].new_tape_value : k \in 1..Len(trs)} \ {Wildcard}
    IN  <<r, w, r \cup w>>

\* C16: known_tape_values returns without failing, whether or not a rule of
\* the Program uses the wildcard and whether asked before or after steps:
\* start_values are the read symbols of the Program's rules, written_values
\* their write symbols, all the union, each without the wildcard (stated for
\* Programs with at least one rule).
C16_KnownSymbols ==
    (last.op = "known_tape_values" /\ Len(transitions0) >= 1)
    => /\ last.err.exc = "none"
       /\ last.ret = SymbolsOf(transitions0)

\* rule i of trs is for (st, tv) and no later rule is
IsLastRuleFor(trs, i, st, tv) ==
    /\ trs[i].start_state = st /\ trs[i].tape_value = tv
    /\ \A j \in (i + 1)..Len(trs) : ~(trs[j].start_state = st /\ trs[j].tape_value = tv)

\* several rules of trs are for (st, tv)
Duplicated(trs, st, tv) ==
    Cardinality({i \in 1..Len(trs) : trs[i].start_state = st /\ trs[i].tape_value = tv}) >= 2

\* C17: when several rules of the list are for one (start_state, read symbol)
\* pair, the map is built all the same and every lookup and every step for
\* that pair uses the rule that comes last in the list.
C17_LastDuplicateWins ==
    [][ (Stepped /\ ~halted /\ InTape(Machine)
            /\ Duplicated(transitions, state, Cell(Machine)))
        => \E i \in 1..Len(transitions) :
              /\ IsLastRuleFor(transitions, i, state, Cell(Machine))
              /\ understands(transitions, state, Cell(Machine))
              /\ lookup(Machine).err.exc = "none"
              /\ lookup(Machine).state = transitions[i].end_state
              /\ ActionKind(build, lookup(Machine).action)
                    = ActionKind(build, transitions[i].action)
              /\ last'.err.exc = "none"
              /\ state' = transitions[i].end_state
              /\ tape'[tapeIndex + 1] = transitions'[i].new_tape_value
              /\ tapeIndex' = tapeIndex + Delta(ActionKind(build, transitions[i].action))
              /\ halted' <=> ActionKind(build, transitions[i].action) = "Halt"
      ]_vars

\* of two rules for (A, ' ') the second, the halting one, was fired
C17_Witness ==
    /\ Len(transitions0) = 2
    /\ transitions0[1].tape_value = Blank /\ transitions0[1].end_state = "A"
    /\ transitions0[2].tape_value = Blank /\ transitions0[2].end_state = "HALT_STATE"
    /\ steps = 1 /\ last.op = "next" /\ last.ret = <<"A", Blank>>
    /\ state = "HALT_STATE" /\ halted

\* a tape of '1's only
AllOnes(tp) == \A j \in 1..Len(tp) : tp[j] = "1"

\* C18: the scenario program on a tape of n '1's, errors disabled: no step
\* fails, the machine halts with its (n+1)-th step in HALT_STATE, the final
\* tape is the n '1's and one blank, and tape and state are those of the run on
\* the same '1's followed by a blank; what print_tape_trimmed shows is the '1's
\* (machines of the package build, built with errors disabled; runs that are
\* not cancelled).
C18_ScenarioGrowsAndHalts ==
    (build = "python" /\ IsScenario /\ AllOnes(tape0) /\ ~errorOnEOT /\ ~last.interrupted)
    => /\ last.stepped => last.err.exc \in {"none", "NextAfterHalt"}
       /\ last.op \in {"run", "accepts"} => (last.err.exc = "none" /\ last.value # "raised")
       /\ steps <= Len(tape0) + 1
       /\ steps = Len(tape0) + 1 <=> halted
       /\ halted
            => /\ state = "HALT_STATE"
               /\ tape = tape0 \o <<Blank>>
               /\ trimmed(tape) = Join(tape0)
               /\ print_tape_trimmed(Machine) = Repr(Join(tape0))
               /\ LET o == run_from([FreshMachine EXCEPT !.tape = tape0 \o <<Blank>>],
                                    Len(tape0) + 1)
                  IN  /\ o.done /\ o.err.exc = "none" /\ o.m.halted
                      /\ o.m.tape = tape /\ o.m.state = state
                      /\ print_tape_trimmed(o.m) = print_tape_trimmed(Machine)

\* run() has returned on the tape ['1', '1'] grown to ['1', '1', ' ']
C18_Witness ==
    /\ build = "python" /\ IsScenario /\ ~errorOnEOT /\ tape0 = <<"1", "1">>
    /\ last.op = "run" /\ last.value = "None" /\ ~last.interrupted
    /\ halted /\ state = "HALT_STATE"
    /\ tape = <<"1", "1", Blank>>
    /\ print_tape_trimmed(Machine) = "'11'"

\* C19: once ensure_transitions has returned normally on a machine, no step
\* and no run of that machine fails with NoSuchTransitionRule (stated for calls
\* whose symbol list holds every symbol a tape of the model can hold).
C19_EnsuredNeverLacksRule ==
    (last.stepped /\ \E tv \in ensured : Symbols \subseteq Range(tv))
    => last.err.exc # "NoSuchTransitionRule"

\* C20: after the construction of a machine, and after every call of
\* initialize that returns, whatever steps came before it, the state is the
\* Program's initial state, the head is at the Program's initial index and
\* halted is false.
C20_InitializeResets ==
    (last.op \in {"init", "initialize"} /\ last.err.exc = "none")
    => /\ state = initial_state
       /\ tapeIndex = initial_index
       /\ ~halted

\* C21: on a Program read from a program description, a fired rule whose
\* action is given as 'left' moves the head one cell down, 'right' one cell up,
\* 'stay' leaves it, and 'HALT' sets halted (so that a run firing it ends).
C21_LoadedActionsAct ==
    [][ (Stepped /\ ~halted /\ InTape(Machine)
            /\ understands(transitions, state, Cell(Machine)))
        => LET a == transitions[transition_for(transitions, state, Cell(Machine))].action
           IN  /\ a \in JsonActions
               /\ last'.err.exc = "none"
               /\ a = "left" => tapeIndex' = tapeIndex - 1 /\ ~halted'
               /\ a = "right" => tapeIndex' = tapeIndex + 1 /\ ~halted'
               /\ a = "stay" => tapeIndex' = tapeIndex /\ ~halted'
               /\ a = "HALT" => tapeIndex' = tapeIndex /\ halted'
      ]_vars

\* C22: whenever accepts() returns True the machine it built and ran is
\* halted: True stands for a run ended by a Halt rule, also when the run was
\* cancelled.
C22_AcceptsTrueOnlyWhenHalted ==
    (last.op = "accepts" /\ last.value = "True") => halted

\* C23: the machine owns its tape: whatever steps it takes, in either
\* end-of-tape mode, the list the caller passed to the constructor or to
\* accepts(), which is also the tape another machine built from it would work
\* on, stays as the caller made it.
C23_CallerTapeUntouched == given = tape0

\* C24: run() never brings about NextAfterHalt: it calls next() only while
\* halted is false; entered on a halted machine it returns normally and leaves
\* tape, state and head where they were; and no step and no run sets halted
\* back to false.
C24_RunNeverStepsHalted ==
    /\ [](last.op \in {"run", "accepts"} => last.err.exc # "NextAfterHalt")
    /\ [][(pc = "running" /\ Stepped) => ~halted]_vars
    /\ [][ (pc = "running" /\ halted /\ ~last'.interrupted)
           => /\ pc' = "ready"
              /\ last'.op = caller
              /\ last'.err.exc = "none"
              /\ last'.value # "raised"
              /\ UNCHANGED <<tape, state, tapeIndex, halted>> ]_vars
    /\ [][(halted /\ ~halted') => last'.op = "initialize"]_vars

\* run() has been entered on a machine that an earlier step had halted
C24_Witness ==
    /\ pc = "running" /\ caller = "run" /\ last.op = "enter_run"
    /\ halted /\ steps >= 1

\* C25: a run() that is not cancelled ends, by returning or by letting a
\* failure through, only where the execution has reached a Halt action, a
\* (state, symbol) pair without a rule or, with errors enabled, an edge of the
\* tape.
C25_RunEndsOnlyAtHaltRuleOrEdge ==
    (last.op \in {"run", "accepts"} /\ ~last.interrupted)
    => \/ halted /\ last.err.exc = "none"
       \/ last.err.exc = "NoSuchTransitionRule"
       \/ errorOnEOT /\ last.err.exc = "EndOfTapeError"

\* C26: a step that fails with NoSuchTransitionRule leaves state and halted as
\* they were and overwrites no cell; the failure carries the current state and
\* the symbol really under the head (the script build carries their repr());
\* with errors disabled all such a step may leave behind is the one blank cell
\* of the boundary check, with the head set to 0 on the left edge.
C26_NoRuleStepChangesNothing ==
    [][ (Stepped /\ ~halted /\ last'.err.exc = "NoSuchTransitionRule")
        => LET read == IF InTape(Machine) THEN Cell(Machine) ELSE Blank
               n == Len(tape)
           IN  /\ state' = state
               /\ ~halted'
               /\ transitions' = transitions
               /\ ~understands(transitions, state, read)
               /\ last'.err.state = IF build = "python" THEN state ELSE Repr(state)
               /\ last'.err.tape_value = IF build = "python" THEN read ELSE Repr(read)
               /\ InTape(Machine) => UNCHANGED <<tape, tapeIndex>>
               /\ ~InTape(Machine) => ~errorOnEOT
               /\ tapeIndex < 0 => (tape' = <<Blank>> \o tape /\ tapeIndex' = 0)
               /\ tapeIndex >= n => (tape' = Append(tape, Blank) /\ tapeIndex' = tapeIndex)
      ]_vars

\* a step off the left edge has made the blank cell and then found no rule for
\* blank
C26_Witness ==
    /\ last.op = "next" /\ last.err.exc = "NoSuchTransitionRule"
    /\ last.err.tape_value = Blank /\ last.err.state = "A"
    /\ grown[1] = 1 /\ tapeIndex = 0
    /\ tape = <<Blank>> \o tape0 /\ Len(tape0) >= 1

\* C27: when the Program's initial index lies in -1..len(tape), the head is,
\* between steps, never more than one cell beyond either end of the tape, in
\* both end-of-tape modes.
C27_HeadWithinOneOfTape ==
    (initial_index \in (0 - 1)..Len(tape0)) => (tapeIndex \in (0 - 1)..Len(tape))

\* the head has stepped off the left end, a cell was made for it, and it has
\* stepped off the left end again
C27_Witness ==
    /\ initial_index \in (0 - 1)..Len(tape0)
    /\ ~errorOnEOT /\ grown[1] = 1
    /\ tapeIndex = 0 - 1
    /\ last.op = "next" /\ last.err.exc = "none"

\* the machine with the other value of verbose
Twin(m) == [m EXCEPT !.verbose = ~m.verbose]

\* (tape, current_state, head_index, halted)
Config(m) == <<m.tape, m.state, m.tapeIndex, m.halted>>

\* C28: verbose does not influence execution: every step of a machine leaves
\* the configuration, the returned pair and the failure that the same step of
\* the machine differing in verbose only leaves, and their runs end alike.
C28_VerboseDoesNotInfluence ==
    /\ [](LET a == run_from(Machine, MaxSteps + 1)
              b == run_from(Twin(Machine), MaxSteps + 1)
          IN  Config(a.m) = Config(b.m) /\ a.err = b.err /\ a.done = b.done)
    /\ [][ Stepped
           => LET t == next(Twin(Machine))
              IN  /\ Config(MachineNext) = Config(t.m)
                  /\ last'.ret = t.ret
                  /\ last'.err = t.err ]_vars

\* a quiet machine has halted after two steps, having printed nothing, where
\* the verbose machine prints two trace lines
C28_Witness ==
    /\ ~verbose /\ printed = <<>>
    /\ halted /\ steps = 2 /\ last.op = "run"
    /\ Len(run_from(Twin(FreshMachine), MaxSteps).m.printed) = 2

====
